---------------------------- MODULE Spec2Model ----------------------------
(***************************************************************************)
(* gh-issues-mirror: the command line (parseArgs, usage, main), the sync   *)
(* engine (sync, readState, writeState, ghApiJson, padIssueNumber) and the *)
(* environment it runs in (the wall clock, the upstream issue tracker      *)
(* reached through `gh api`, and the files under .github-mirror/).         *)
(*                                                                         *)
(* JavaScript values are tagged records ([t |-> "string", v |-> ...]);     *)
(* strings are TLA+ strings, taken apart with Len, SubSeq and \o.          *)
(***************************************************************************)
EXTENDS Integers, Sequences, FiniteSets, TLC

VARIABLES
    clock,      \* the wall clock read by nowIso()
    upstream,   \* the issue tracker: what the list and comment endpoints hold
    stateFile,  \* .github-mirror/state.json
    files,      \* .github-mirror/issues/: file name -> file content
    argv,       \* process.argv.slice(2) of the running process
    pc,         \* where the process is
    exitCode,   \* the exit status (-1 while the process runs)
    out,        \* what the process wrote to stdout and stderr, in order
    loc,        \* the local variables of sync()
    req,        \* the apiPath of the `gh api` call in flight ("" when none)
    runs,       \* processes started so far
    hist        \* history of the current run and of the previous one

vars == <<clock, upstream, stateFile, files, argv, pc, exitCode, out, loc, req,
          runs, hist>>

(***************************************************************************)
(* Bounds of the model.                                                    *)
(***************************************************************************)
MaxClock == 1
MaxIssues == 2
MaxRuns == 2
MaxChanges == 1
MaxArgs == 3
MaxPadInput == 130

(***************************************************************************)
(* JavaScript values.                                                      *)
(***************************************************************************)
Undefined == [t |-> "undefined"]
Null == [t |-> "null"]
Str(s) == [t |-> "string", v |-> s]
Num(n) == [t |-> "number", v |-> n]
Arr(s) == [t |-> "array", v |-> s]
EmptyObject == [t |-> "object"]

\* ToBoolean, as used by ||, !, ?: and if
Truthy(x) ==
    CASE x.t \in {"undefined", "null"} -> FALSE
      [] x.t = "string" -> x.v # ""
      [] x.t = "number" -> x.v # 0
      [] OTHER -> TRUE

\* a || b
JsOr(a, b) == IF Truthy(a) THEN a ELSE b

\* o.f on an object (undefined when the property is missing)
Get(o, f) == IF f \in DOMAIN o THEN o[f] ELSE Undefined

\* o?.f
OptGet(o, f) == IF o.t \in {"undefined", "null"} THEN Undefined ELSE Get(o, f)

TypeofNumber(x) == x.t = "number"
IsArray(x) == x.t = "array"

(***************************************************************************)
(* Strings.                                                                *)
(***************************************************************************)
CharAt(s, i) == SubSeq(s, i, i)

StartsWith(s, p) == Len(s) >= Len(p) /\ SubSeq(s, 1, Len(p)) = p

\* s.slice(n)
Slice(s, n) == SubSeq(s, n + 1, Len(s))

RECURSIVE Repeat(_, _)
Repeat(c, n) == IF n <= 0 THEN "" ELSE c \o Repeat(c, n - 1)

RECURSIVE Includes(_, _)
Includes(s, p) ==
    IF Len(s) < Len(p) THEN FALSE
    ELSE StartsWith(s, p) \/ Includes(Slice(s, 1), p)

\* s.split(sep) for a one-character separator
RECURSIVE SplitFrom(_, _, _)
SplitFrom(s, sep, cur) ==
    IF s = "" THEN <<cur>>
    ELSE IF CharAt(s, 1) = sep THEN <<cur>> \o SplitFrom(Slice(s, 1), sep, "")
    ELSE SplitFrom(Slice(s, 1), sep, cur \o CharAt(s, 1))

Split(s, sep) == SplitFrom(s, sep, "")

RECURSIVE TrimStart(_)
TrimStart(s) ==
    IF s # "" /\ CharAt(s, 1) \in {" ", "\n", "\t"} THEN TrimStart(Slice(s, 1)) ELSE s

Digits == "0123456789"

\* String(num) for an integer
RECURSIVE NatToString(_)
NatToString(n) ==
    IF n < 10 THEN CharAt(Digits, n + 1)
    ELSE NatToString(n \div 10) \o CharAt(Digits, (n % 10) + 1)

String(num) == IF num < 0 THEN "-" \o NatToString(0 - num) ELSE NatToString(num)


(***************************************************************************)
(* Pure helpers of bin/gh-issues-mirror.js.                                *)
(***************************************************************************)
PadWidth == 6

\* variant of padIssueNumber: the name is cut to its last PadWidth digits
padIssueNumberCut(num) ==
    LET s == Repeat("0", PadWidth - Len(String(num))) \o String(num)
    IN  SubSeq(s, Len(s) - PadWidth + 1, Len(s))

\* variant of padIssueNumber: pads to one digit less
padIssueNumberShort(num) ==
    LET s == String(num)
    IN  IF Len(s) >= PadWidth - 1 THEN s ELSE Repeat("0", (PadWidth - 1) - Len(s)) \o s

padIssueNumber(num) ==
    LET s == String(num)
    IN  IF Len(s) >= PadWidth THEN s ELSE Repeat("0", PadWidth - Len(s)) \o s

\* lines 190: `${padIssueNumber(number)}.json`
FileNameOf(number) == padIssueNumber(number) \o ".json"

\* new Date().toISOString() when the wall clock reads t (one-digit seconds)
IsoOf(t) == "1970-01-01T00:00:0" \o CharAt(Digits, t + 1) \o "Z"

nowIso == IsoOf(clock)

\* Date.parse of an ISO string (-1: not a timestamp)
ParseIso(s) ==
    IF \E t \in 0..9 : IsoOf(t) = s
    THEN CHOOSE t \in 0..9 : IsoOf(t) = s
    ELSE -1

\* encodeURIComponent: every character but A-Z a-z 0-9 - _ . ! ~ * ' ( ) is escaped
EncodeChar(c) ==
    CASE c = ":" -> "%3A"
      [] c = "/" -> "%2F"
      [] c = "%" -> "%25"
      [] c = "&" -> "%26"
      [] c = "=" -> "%3D"
      [] c = "+" -> "%2B"
      [] c = " " -> "%20"
      [] OTHER -> c

RECURSIVE encodeURIComponent(_)
encodeURIComponent(s) ==
    IF s = "" THEN "" ELSE EncodeChar(CharAt(s, 1)) \o encodeURIComponent(Slice(s, 1))

\* JSON.stringify(value, null, 2) + '\n': the text of a file, kept as the value
\* it denotes
safeJsonStringify(value) == [kind |-> "json", v |-> value]

\* what a path holds: nothing, a JSON text, or the remains of a write that failed
\* after the file was opened (fs.writeFileSync opens with flag 'w', which truncates)
Absent == [kind |-> "absent"]
Truncated == [kind |-> "truncated"]

UsageMsg == "\nUsage:\n  gh-issues-mirror sync [repoPath] [--repo owner/name] [--since <iso>] [--verbose]\n"

\* what usage() writes to stdout
UsageText == TrimStart(UsageMsg) \o "\n"

(***************************************************************************)
(* parseArgs(argv): the loop of lines 33-57, then lines 59-62.  usage(0)   *)
(* inside the loop ends the process: the result says so (exited).          *)
(***************************************************************************)
Args0 == [command |-> Null, repoPath |-> Null, repoSlug |-> Null, since |-> Null,
          verbose |-> FALSE]

\* argv[i] (0-based i), undefined past the end
ArgAt(av, i) == IF i + 1 <= Len(av) THEN Str(av[i + 1]) ELSE Undefined

HelpFlags == {"--help", "-h"}
VerboseFlags == {"--verbose", "-v"}

RECURSIVE parseArgsFrom(_, _, _, _)
parseArgsFrom(av, i, args, rest) ==
    IF i >= Len(av)
    THEN [exited |-> FALSE,
          args |-> [args EXCEPT !.command = JsOr(ArgAt(rest, 0), Null),
                                !.repoPath = JsOr(ArgAt(rest, 1), Null)]]
    ELSE LET a == av[i + 1]
         IN  IF a \in HelpFlags THEN [exited |-> TRUE, args |-> args]
             ELSE IF a \in VerboseFlags
                  THEN parseArgsFrom(av, i + 1, [args EXCEPT !.verbose = TRUE], rest)
             ELSE IF a = "--repo"
                  THEN parseArgsFrom(av, i + 2, [args EXCEPT !.repoSlug = ArgAt(av, i + 1)], rest)
             ELSE IF StartsWith(a, "--repo=")
                  THEN parseArgsFrom(av, i + 1, [args EXCEPT !.repoSlug = Str(Slice(a, Len("--repo=")))], rest)
             ELSE IF a = "--since"
                  THEN parseArgsFrom(av, i + 2, [args EXCEPT !.since = ArgAt(av, i + 1)], rest)
             ELSE IF StartsWith(a, "--since=")
                  THEN parseArgsFrom(av, i + 1, [args EXCEPT !.since = Str(Slice(a, Len("--since=")))], rest)
             ELSE parseArgsFrom(av, i + 1, args, Append(rest, a))

parseArgs(av) == parseArgsFrom(av, 0, Args0, <<>>)


(***************************************************************************)
(* The upstream tracker, as `gh api` shows it.  An entry of the issue list *)
(* is a JSON value; body says what the entry's comments endpoint returns.  *)
(***************************************************************************)
UpstreamRepo == "o/n"

IssueObj(n, k, t) ==
    [t |-> "object", number |-> Num(n), comments |-> Num(k), updated_at |-> Str(IsoOf(t))]

\* an entry whose number is missing
NoNumberObj(t) == [t |-> "object", comments |-> Num(1), updated_at |-> Str(IsoOf(t))]

\* an entry whose number is not a number
StrNumberObj(n, t) ==
    [t |-> "object", number |-> Str(String(n)), comments |-> Num(1),
     updated_at |-> Str(IsoOf(t))]

\* the issue number of the entry at position i of the tracker
NumberAt(i) == CASE i = 1 -> 123 [] i = 2 -> 123456 [] OTHER -> 1234564 + i

CommentBodies == {"array", "object", "null"}

\* the entries position i can hold when it is created or changed at time t
EntriesAt(i, t) ==
    {[issue |-> Null, body |-> "array"],
     [issue |-> NoNumberObj(t), body |-> "array"],
     [issue |-> StrNumberObj(NumberAt(i), t), body |-> "array"],
     [issue |-> IssueObj(NumberAt(i), 0, t), body |-> "array"]}
    \cup {[issue |-> IssueObj(NumberAt(i), 1, t), body |-> b] : b \in CommentBodies}

\* what an edit or a new comment makes of position i at time t
EditsAt(i, t) ==
    {[issue |-> IssueObj(NumberAt(i), k, t), body |-> "array"] : k \in {0, 1}}

CommentObj(n, j) == [t |-> "object", id |-> Num(j), issue |-> Num(n)]

\* the parsed stdout of `gh api` for the comments of entry e
CommentsBody(e) ==
    CASE e.body = "array" -> Arr(<<CommentObj(e.issue.number.v, 1)>>)
      [] e.body = "object" -> EmptyObject
      [] OTHER -> Null

\* decodeURIComponent, as the server applies it to a query value
DecodeEscape(h) ==
    CASE h = "%3A" -> ":"
      [] h = "%2F" -> "/"
      [] h = "%25" -> "%"
      [] h = "%26" -> "&"
      [] h = "%3D" -> "="
      [] h = "%2B" -> "+"
      [] h = "%20" -> " "
      [] OTHER -> h

RECURSIVE decodeURIComponent(_)
decodeURIComponent(s) ==
    IF s = "" THEN ""
    ELSE IF CharAt(s, 1) = "%" /\ Len(s) >= 3
         THEN DecodeEscape(SubSeq(s, 1, 3)) \o decodeURIComponent(Slice(s, 3))
         ELSE CharAt(s, 1) \o decodeURIComponent(Slice(s, 1))

\* the text of s up to the first "&"
RECURSIVE UpToAmp(_)
UpToAmp(s) ==
    IF s = "" \/ CharAt(s, 1) = "&" THEN "" ELSE CharAt(s, 1) \o UpToAmp(Slice(s, 1))

\* the raw value of query parameter `name` in a request path: <<>> when the
\* path has no such parameter, else <<value>>
RECURSIVE QueryParam(_, _)
QueryParam(path, name) ==
    IF Len(path) < Len(name) + 2 THEN <<>>
    ELSE IF CharAt(path, 1) \in {"?", "&"} /\ StartsWith(Slice(path, 1), name \o "=")
         THEN <<UpToAmp(Slice(path, Len(name) + 2))>>
         ELSE QueryParam(Slice(path, 1), name)

\* the cutoff a list request carries, as the server reads it: <<>> for none
SinceOfRequest(path) ==
    LET q == QueryParam(path, "since")
    IN  IF q = <<>> THEN <<>> ELSE <<decodeURIComponent(q[1])>>

IssuesPath(owner, repo, sinceQs) ==
    "/repos/" \o owner \o "/" \o repo \o "/issues?state=all&per_page=100" \o sinceQs

CommentsPath(owner, repo, number) ==
    "/repos/" \o owner \o "/" \o repo \o "/issues/" \o String(number)
        \o "/comments?per_page=100"

ServesList(path) ==
    /\ StartsWith(path, "/repos/" \o UpstreamRepo \o "/issues?")
    /\ LET c == SinceOfRequest(path) IN IF c = <<>> THEN TRUE ELSE ParseIso(c[1]) >= 0

\* entries updated at or after the cutoff; an entry that is no issue object
\* carries no time and is listed whenever it is there
Listed(e, cutoff) ==
    IF cutoff = <<>> \/ e.issue.t # "object" THEN TRUE
    ELSE ParseIso(e.issue.updated_at.v) >= ParseIso(cutoff[1])

\* the entries of es the cutoff lets through, in order
RECURSIVE ListedFrom(_, _)
ListedFrom(es, cutoff) ==
    IF es = <<>> THEN <<>>
    ELSE (IF Listed(Head(es), cutoff) THEN <<Head(es).issue>> ELSE <<>>)
             \o ListedFrom(Tail(es), cutoff)

\* the issue list the server returns for a list request it serves
ServerList(path) == ListedFrom(upstream, SinceOfRequest(path))

(***************************************************************************)
(* The process.                                                            *)
(***************************************************************************)
Loc0 == [repoSlug |-> Null, since |-> Null, prevState |-> Null,
         effectiveSince |-> Null, owner |-> "", repo |-> "", issues |-> <<>>,
         i |-> 1, updatedCount |-> 0, commentsFetched |-> 0]

\* stateAtStart, filesAtStart: the files when the process started
\* listReq, listed, listNotArray: the list request made, whether its response
\*     was an array, whether it was something else
\* commentReqFor, badComments, wroteFor: the positions of the fetched list whose
\*     comments were requested, whose comments response was no array, whose
\*     record was written
\* quiet: the tracker has not changed since the process started
\* prevQuiet, prevFiles, prevState: the process before this one was a sync
\*     without --since that succeeded, with the tracker unchanged from its start
\*     to the start of this one; the files it left
\* changes: how often the tracker has changed
Hist0 == [stateAtStart |-> Absent, filesAtStart |-> <<>>, listReq |-> "",
          listed |-> FALSE, listNotArray |-> FALSE, commentReqFor |-> {},
          badComments |-> {}, wroteFor |-> {}, quiet |-> TRUE, prevQuiet |-> FALSE,
          prevFiles |-> <<>>, prevState |-> Absent, changes |-> 0]

\* the argument vectors of the processes started in Spec
ArgvSync ==
    {<<"sync">>, <<"sync", "--since", IsoOf(0)>>, <<"--help">>, <<>>}

\* what `git remote get-url origin` can lead inferRepoSlugFromGit to return
InferredSlugs == {UpstreamRepo}

\* the outcomes of fs.writeFileSync(path, data): written; failed before the file
\* was opened (the file is as it was); failed after it was opened with flag 'w'
\* (the file is truncated)
WriteOutcomes == {"ok", "fail_untouched", "fail_truncated"}

ErrLine(msg) == [stream |-> "stderr", kind |-> "error",
                 text |-> "[gh-issues-mirror] error: " \o msg]

\* the error is printed and the run goes on with what follows in the loop
FailAndGoOn(msg) ==
    /\ pc' = "loop"
    /\ exitCode' = exitCode
    /\ out' = Append(out, ErrLine(msg))
    /\ req' = ""

\* the exit status tells the kind of failure apart
FailWithOwnStatus(msg) ==
    /\ pc' = "exited"
    /\ exitCode' = IF msg = "write failed" THEN 2 ELSE 1
    /\ out' = Append(out, ErrLine(msg))
    /\ req' = ""

\* main().catch: the error is printed and the process exits with status 1
Fail(msg) ==
    /\ pc' = "exited"
    /\ exitCode' = 1
    /\ out' = Append(out, ErrLine(msg))
    /\ req' = ""

\* usage(exitCode)
usage(code) ==
    /\ pc' = "exited"
    /\ exitCode' = code
    /\ out' = Append(out, [stream |-> "stdout", kind |-> "usage", text |-> UsageText])
    /\ req' = ""

\* a state file that cannot be parsed is read as a state whose cutoff is the epoch
readStateWithDefault ==
    IF stateFile.kind = "json" THEN stateFile.v
    ELSE [t |-> "object", lastSuccessfulSyncAt |-> Str(IsoOf(0))]

\* readState(statePath)
readState == IF stateFile.kind = "json" THEN stateFile.v ELSE Null

\* the stored cutoff wins over the caller's
EffectiveSincePrevFirst(since, prevState) ==
    JsOr(JsOr(OptGet(prevState, "lastSuccessfulSyncAt"), since), Null)

\* line 169
EffectiveSince(since, prevState) ==
    JsOr(JsOr(since, OptGet(prevState, "lastSuccessfulSyncAt")), Null)

\* line 170
SinceQs(effectiveSince) ==
    IF Truthy(effectiveSince) THEN "&since=" \o encodeURIComponent(effectiveSince.v) ELSE ""

Init ==
    /\ clock = 0
    /\ upstream \in {<<e1, e2>> : e1 \in EntriesAt(1, 0), e2 \in EntriesAt(2, 0)}
    /\ stateFile = Absent
    /\ files = <<>>
    /\ argv = <<>>
    /\ pc = "idle"
    /\ exitCode = -1
    /\ out = <<>>
    /\ loc = Loc0
    /\ req = ""
    /\ runs = 0
    /\ hist = Hist0

\* the wall clock advances
Tick ==
    /\ clock < MaxClock
    /\ clock' = clock + 1
    /\ UNCHANGED <<upstream, stateFile, files, argv, pc, exitCode, out, loc, req, runs, hist>>

\* an entry of the tracker is created or changed, now
UpstreamChange ==
    /\ hist.changes < MaxChanges
    /\ \E k \in 1..MaxIssues : \E e \in EditsAt(k, clock) :
          /\ k <= Len(upstream) + 1
          /\ upstream' = IF k <= Len(upstream) THEN [upstream EXCEPT ![k] = e]
                         ELSE Append(upstream, e)
          /\ upstream' # upstream
    /\ hist' = [hist EXCEPT !.changes = @ + 1, !.quiet = FALSE, !.prevQuiet = FALSE]
    /\ UNCHANGED <<clock, stateFile, files, argv, pc, exitCode, out, loc, req, runs>>

SyncSucceeded ==
    /\ pc = "exited"
    /\ exitCode = 0
    /\ \E k \in 1..Len(out) : out[k].kind = "summary"

\* a process is started
Invoke ==
    /\ pc \in {"idle", "exited"}
    /\ runs < MaxRuns
    /\ \E av \in ArgvSync : argv' = av
    /\ pc' = "main"
    /\ exitCode' = -1
    /\ out' = <<>>
    /\ loc' = Loc0
    /\ req' = ""
    /\ runs' = runs + 1
    /\ hist' = [Hist0 EXCEPT
                  !.stateAtStart = stateFile,
                  !.filesAtStart = files,
                  !.changes = hist.changes,
                  !.prevQuiet = SyncSucceeded /\ hist.quiet /\ ~Truthy(loc.since),
                  !.prevFiles = IF SyncSucceeded /\ hist.quiet /\ ~Truthy(loc.since)
                                THEN files ELSE <<>>,
                  !.prevState = IF SyncSucceeded /\ hist.quiet /\ ~Truthy(loc.since)
                                THEN stateFile ELSE Absent]
    /\ UNCHANGED <<clock, upstream, stateFile, files>>

\* parseArgs meets --help or -h: usage(0)
MainHelp ==
    /\ pc = "main"
    /\ parseArgs(argv).exited
    /\ usage(0)
    /\ UNCHANGED <<clock, upstream, stateFile, files, argv, loc, runs, hist>>

\* main: no command, or a command other than sync: usage(1)
MainUsage ==
    /\ pc = "main"
    /\ LET p == parseArgs(argv)
       IN  /\ ~p.exited
           /\ IF ~Truthy(p.args.command) THEN TRUE ELSE p.args.command # Str("sync")
    /\ usage(1)
    /\ UNCHANGED <<clock, upstream, stateFile, files, argv, loc, runs, hist>>

\* sync, from line 160 to the list request of line 175
SyncBegin(slug, since) ==
    IF ~Truthy(slug) \/ ~Includes(slug.v, "/")
    THEN /\ Fail("Invalid repo")
         /\ loc' = [loc EXCEPT !.repoSlug = slug, !.since = since]
         /\ UNCHANGED <<hist>>
    ELSE \E mkdirOk \in BOOLEAN :
         IF ~mkdirOk
         THEN /\ Fail("mkdir failed")
              /\ loc' = [loc EXCEPT !.repoSlug = slug, !.since = since]
              /\ UNCHANGED <<hist>>
         ELSE LET prevState == readState
                  effectiveSince == EffectiveSince(since, prevState)
                  parts == Split(slug.v, "/")
                  path == IssuesPath(parts[1], parts[2], SinceQs(effectiveSince))
              IN  /\ loc' = [loc EXCEPT !.repoSlug = slug, !.since = since,
                                        !.prevState = prevState,
                                        !.effectiveSince = effectiveSince,
                                        !.owner = parts[1], !.repo = parts[2]]
                  /\ req' = path
                  /\ pc' = "list"
                  /\ hist' = [hist EXCEPT !.listReq = path]
                  /\ UNCHANGED <<exitCode, out>>

\* main: the command is sync; sync runs to its first await
MainSync ==
    /\ pc = "main"
    /\ LET p == parseArgs(argv)
       IN  /\ ~p.exited
           /\ p.args.command = Str("sync")
           /\ IF ~Truthy(p.args.repoSlug)
              THEN /\ pc' = "infer"
                   /\ loc' = [loc EXCEPT !.repoSlug = p.args.repoSlug,
                                         !.since = p.args.since]
                   /\ UNCHANGED <<exitCode, out, req, hist>>
              ELSE SyncBegin(p.args.repoSlug, p.args.since)
    /\ UNCHANGED <<clock, upstream, stateFile, files, argv, runs>>

\* inferRepoSlugFromGit returns a slug
InferOk ==
    /\ pc = "infer"
    /\ \E slug \in InferredSlugs : SyncBegin(Str(slug), loc.since)
    /\ UNCHANGED <<clock, upstream, stateFile, files, argv, runs>>

\* inferRepoSlugFromGit throws: git fails, or the origin URL is empty or not
\* a GitHub URL
InferFail ==
    /\ pc = "infer"
    /\ Fail("Could not infer repo")
    /\ UNCHANGED <<clock, upstream, stateFile, files, argv, loc, runs, hist>>


\* ghApiJson throws for the list request: gh exits non-zero (transport error,
\* unknown repository, a since the server rejects) or prints what is no JSON
ListFail ==
    /\ pc = "list"
    /\ Fail("gh exited with code 1")
    /\ UNCHANGED <<clock, upstream, stateFile, files, argv, loc, runs, hist>>

\* what a list response that is no array can be: null (an empty stdout), an
\* object, a string
NonArrayResponses == {Null, EmptyObject, Str("x")}

\* a list response that is no array is passed on as an empty list
ListOutcomeLenient(issues) ==
    IF ~IsArray(issues) THEN [fail |-> FALSE, items |-> <<>>]
    ELSE [fail |-> FALSE, items |-> issues.v]

\* line 181: whether sync throws on the list response, and the list it goes on with
ListOutcome(issues) ==
    IF ~IsArray(issues) THEN [fail |-> TRUE, items |-> <<>>]
    ELSE [fail |-> FALSE, items |-> issues.v]

\* lines 175-184, for the list response `issues`
ListReceived(issues) ==
    LET o == ListOutcome(issues)
    IN  IF o.fail
        THEN /\ Fail("Unexpected response: issues list is not an array")
             /\ UNCHANGED loc
        ELSE /\ loc' = [loc EXCEPT !.issues = o.items, !.i = 1,
                                   !.updatedCount = 0, !.commentsFetched = 0]
             /\ pc' = "loop"
             /\ req' = ""
             /\ UNCHANGED <<exitCode, out>>

\* the list response is not an array
ListNotArray ==
    /\ pc = "list"
    /\ \E issues \in NonArrayResponses : ListReceived(issues)
    /\ hist' = [hist EXCEPT !.listNotArray = TRUE]
    /\ UNCHANGED <<clock, upstream, stateFile, files, argv, runs>>

\* the list response is the array of the entries the server lists
ListOk ==
    /\ pc = "list"
    /\ ServesList(req)
    /\ \E issues \in {Arr(ServerList(req))} : ListReceived(issues)
    /\ hist' = [hist EXCEPT !.listed = TRUE]
    /\ UNCHANGED <<clock, upstream, stateFile, files, argv, runs>>

\* line 187: the entry the loop is at is skipped
SkipsEntry(issue) == ~Truthy(issue) \/ ~TypeofNumber(Get(issue, "number"))

\* the comments are requested whatever the count
WantsCommentsAlways(issue) == TRUE

\* line 194
WantsComments(issue) ==
    IF Truthy(Get(issue, "comments")) THEN Get(issue, "comments").v > 0 ELSE FALSE

\* the loop ends one entry early
LoopDoneEarly == loc.i >= Len(loc.issues)

\* line 186: the for-of loop has been through the list
LoopDone == loc.i > Len(loc.issues)

LoopSkip ==
    /\ pc = "loop"
    /\ ~LoopDone
    /\ SkipsEntry(loc.issues[loc.i])
    /\ loc' = [loc EXCEPT !.i = @ + 1]
    /\ UNCHANGED <<clock, upstream, stateFile, files, argv, pc, exitCode, out, req, runs, hist>>

\* the record also holds the cutoff of the run
PayloadWithCutoff(issue, comments) ==
    [t |-> "object", schemaVersion |-> Num(1), fetchedAt |-> Str(nowIso),
     repo |-> loc.repoSlug, issue |-> issue, comments |-> comments,
     since |-> loc.effectiveSince]

\* lines 204-210
Payload(issue, comments) ==
    [t |-> "object", schemaVersion |-> Num(1), fetchedAt |-> Str(nowIso),
     repo |-> loc.repoSlug, issue |-> issue, comments |-> comments]

\* the issues directory is emptied before a record is written
WriteRecordPruning(comments, commentsFetched, bad, outcome) ==
    LET issue == loc.issues[loc.i]
        fileName == FileNameOf(issue.number.v)
    IN  CASE outcome = "ok" ->
               /\ files' = (fileName :> safeJsonStringify(Payload(issue, comments)))
               /\ loc' = [loc EXCEPT !.i = @ + 1, !.updatedCount = @ + 1,
                                     !.commentsFetched = commentsFetched]
               /\ hist' = [hist EXCEPT !.wroteFor = @ \cup {loc.i},
                                        !.badComments = @ \cup bad]
               /\ pc' = "loop"
               /\ req' = ""
               /\ UNCHANGED <<exitCode, out>>
          [] OTHER ->
               /\ Fail("write failed")
               /\ loc' = [loc EXCEPT !.commentsFetched = commentsFetched]
               /\ hist' = [hist EXCEPT !.badComments = @ \cup bad]
               /\ UNCHANGED <<files>>

\* lines 189-191 and 204-213: the record of the entry the loop is at is written,
\* with the outcome of fs.writeFileSync
WriteRecord(comments, commentsFetched, bad, outcome) ==
    LET issue == loc.issues[loc.i]
        fileName == FileNameOf(issue.number.v)
    IN  CASE outcome = "ok" ->
               /\ files' = (fileName :> safeJsonStringify(Payload(issue, comments))) @@ files
               /\ loc' = [loc EXCEPT !.i = @ + 1, !.updatedCount = @ + 1,
                                     !.commentsFetched = commentsFetched]
               /\ hist' = [hist EXCEPT !.wroteFor = @ \cup {loc.i},
                                        !.badComments = @ \cup bad]
               /\ pc' = "loop"
               /\ req' = ""
               /\ UNCHANGED <<exitCode, out>>
          [] outcome = "fail_untouched" ->
               /\ Fail("write failed")
               /\ loc' = [loc EXCEPT !.commentsFetched = commentsFetched]
               /\ hist' = [hist EXCEPT !.badComments = @ \cup bad]
               /\ UNCHANGED <<files>>
          [] OTHER ->
               /\ Fail("write failed")
               /\ files' = (fileName :> Truncated) @@ files
               /\ loc' = [loc EXCEPT !.commentsFetched = commentsFetched]
               /\ hist' = [hist EXCEPT !.badComments = @ \cup bad]

\* lines 193-213 for an entry whose comments are not fetched
LoopWrite ==
    /\ pc = "loop"
    /\ ~LoopDone
    /\ ~SkipsEntry(loc.issues[loc.i])
    /\ ~WantsComments(loc.issues[loc.i])
    /\ \E outcome \in WriteOutcomes : WriteRecord(Arr(<<>>), loc.commentsFetched, {}, outcome)
    /\ UNCHANGED <<clock, upstream, stateFile, argv, runs>>

\* lines 194-199: the comments of the entry are requested
LoopFetchComments ==
    /\ pc = "loop"
    /\ ~LoopDone
    /\ ~SkipsEntry(loc.issues[loc.i])
    /\ WantsComments(loc.issues[loc.i])
    /\ req' = CommentsPath(loc.owner, loc.repo, loc.issues[loc.i].number.v)
    /\ pc' = "comments"
    /\ hist' = [hist EXCEPT !.commentReqFor = @ \cup {loc.i}]
    /\ UNCHANGED <<clock, upstream, stateFile, files, argv, exitCode, out, loc, runs>>

\* ghApiJson throws for the comments request
CommentsFail ==
    /\ pc = "comments"
    /\ Fail("gh exited with code 1")
    /\ UNCHANGED <<clock, upstream, stateFile, files, argv, loc, runs, hist>>

\* what the server returns for the comments request in flight
CommentResponses ==
    {CommentsBody(upstream[k]) : k \in {j \in 1..Len(upstream) :
        /\ upstream[j].issue.t = "object"
        /\ TypeofNumber(Get(upstream[j].issue, "number"))
        /\ CommentsPath(loc.owner, loc.repo, upstream[j].issue.number.v) = req}}

\* the comments response is kept as it came
NormalizeCommentsKeep(comments) == comments

\* line 200
NormalizeComments(comments) == IF ~IsArray(comments) THEN Arr(<<>>) ELSE comments

\* line 201: comments.length (what is no array has no length to count)
JsLength(x) == IF IsArray(x) THEN Len(x.v) ELSE 0

\* lines 195-213: the comments arrive, and the record is written
CommentsOk ==
    /\ pc = "comments"
    /\ \E resp \in CommentResponses :
          \E comments \in {NormalizeComments(resp)} :
              \E outcome \in WriteOutcomes :
                 WriteRecord(comments, loc.commentsFetched + JsLength(comments),
                             IF IsArray(resp) THEN {} ELSE {loc.i}, outcome)
    /\ UNCHANGED <<clock, upstream, stateFile, argv, runs>>

\* the files-written counter counts every entry of the list
StatsCountingSkipped(issues, updatedCount, commentsFetched) ==
    [t |-> "object", fetchedIssues |-> Num(Len(issues)),
     wroteIssueFiles |-> Num(Len(issues)), fetchedComments |-> Num(commentsFetched)]

\* lines 222-226
Stats(issues, updatedCount, commentsFetched) ==
    [t |-> "object", fetchedIssues |-> Num(Len(issues)),
     wroteIssueFiles |-> Num(updatedCount), fetchedComments |-> Num(commentsFetched)]

\* lines 216-227
NextState ==
    [t |-> "object", schemaVersion |-> Num(1), repo |-> loc.repoSlug,
     lastRunAt |-> Str(nowIso), lastSuccessfulSyncAt |-> Str(nowIso),
     effectiveSince |-> loc.effectiveSince,
     stats |-> Stats(loc.issues, loc.updatedCount, loc.commentsFetched)]

\* the summary counts every entry as written
SummaryLineAllWritten ==
    [stream |-> "stdout", kind |-> "summary", issues |-> Len(loc.issues),
     wrote |-> Len(loc.issues), comments |-> loc.commentsFetched]

\* lines 231-233
SummaryLine ==
    [stream |-> "stdout", kind |-> "summary", issues |-> Len(loc.issues),
     wrote |-> loc.updatedCount, comments |-> loc.commentsFetched]

\* an error of writeState is swallowed: the summary is printed all the same
SyncFinishIgnoringWriteError ==
    /\ pc = "loop"
    /\ LoopDone
    /\ \E outcome \in WriteOutcomes :
          /\ stateFile' = CASE outcome = "ok" -> safeJsonStringify(NextState)
                             [] outcome = "fail_untouched" -> stateFile
                             [] OTHER -> Truncated
          /\ out' = Append(out, SummaryLine)
          /\ pc' = "exited"
          /\ exitCode' = 0
          /\ req' = ""
    /\ UNCHANGED <<clock, upstream, files, argv, loc, runs, hist>>

\* lines 216-235: the loop is over; writeState, then the summary
SyncFinish ==
    /\ pc = "loop"
    /\ LoopDone
    /\ \E outcome \in WriteOutcomes :
          CASE outcome = "ok" ->
                 /\ stateFile' = safeJsonStringify(NextState)
                 /\ out' = Append(out, SummaryLine)
                 /\ pc' = "exited"
                 /\ exitCode' = 0
                 /\ req' = ""
            [] outcome = "fail_untouched" ->
                 /\ Fail("write failed")
                 /\ UNCHANGED stateFile
            [] OTHER ->
                 /\ Fail("write failed")
                 /\ stateFile' = Truncated
    /\ UNCHANGED <<clock, upstream, files, argv, loc, runs, hist>>

Next ==
    \/ Tick
    \/ UpstreamChange
    \/ Invoke
    \/ MainHelp
    \/ MainUsage
    \/ MainSync
    \/ InferOk
    \/ InferFail
    \/ ListFail
    \/ ListNotArray
    \/ ListOk
    \/ LoopSkip
    \/ LoopWrite
    \/ LoopFetchComments
    \/ CommentsFail
    \/ CommentsOk
    \/ SyncFinish

Spec == Init /\ [][Next]_vars


(***************************************************************************)
(* SpecArgs: the command line.  One process per argument vector over       *)
(* ArgTokens; the process is followed through parseArgs and main, up to    *)
(* the first await of sync.                                                *)
(***************************************************************************)
ArgTokens ==
    {"--help", "-h", "--verbose", "--repo", "--since", "sync", "o/n", "--since=x", "list"}

ArgvAll == UNION {[1..n -> ArgTokens] : n \in 0..MaxArgs}

InitArgs ==
    /\ clock = 0
    /\ upstream = <<>>
    /\ stateFile = Absent
    /\ files = <<>>
    /\ argv \in ArgvAll
    /\ pc = "main"
    /\ exitCode = -1
    /\ out = <<>>
    /\ loc = Loc0
    /\ req = ""
    /\ runs = 1
    /\ hist = Hist0

NextArgs ==
    \/ MainHelp
    \/ MainUsage
    \/ MainSync

SpecArgs == InitArgs /\ [][NextArgs]_vars

(***************************************************************************)
(* SpecPad: the naming of record files.  The loop of sync stands at a list *)
(* of one issue without comments, whose number is drawn from PadInputs,    *)
(* and writes its record.                                                  *)
(***************************************************************************)
PadInputs == (1..MaxPadInput) \cup {99999, 100000, 123456, 999999, 1000000, 1234567}

InitPad ==
    /\ clock = 0
    /\ upstream = <<>>
    /\ stateFile = Absent
    /\ files = <<>>
    /\ argv = <<"sync">>
    /\ pc = "loop"
    /\ exitCode = -1
    /\ out = <<>>
    /\ \E n \in PadInputs :
          loc = [Loc0 EXCEPT !.repoSlug = Str(UpstreamRepo), !.owner = "o", !.repo = "n",
                             !.issues = <<IssueObj(n, 0, 0)>>]
    /\ req = ""
    /\ runs = 1
    /\ hist = Hist0

NextPad == LoopWrite

SpecPad == InitPad /\ [][NextPad]_vars

(***************************************************************************)
(* SpecPair: two issues and one directory.  The loop of sync stands at a   *)
(* list of two issues without comments, whose numbers are drawn from       *)
(* PairInputs, with the record of a third number already in the directory, *)
(* and writes their records.                                               *)
(***************************************************************************)
MaxPairInput == 12

PairInputs ==
    (1..MaxPairInput) \cup {99999, 100000, 999999, 1000000, 1000001, 1000012, 1234567}

\* the record an earlier run at time 0 left for issue number n
EarlierRecord(n) ==
    safeJsonStringify([t |-> "object", schemaVersion |-> Num(1), fetchedAt |-> Str(IsoOf(0)),
                       repo |-> Str(UpstreamRepo), issue |-> IssueObj(n, 1, 0),
                       comments |-> Arr(<<CommentObj(n, 1)>>)])

InitPair ==
    /\ clock = 1
    /\ upstream = <<>>
    /\ stateFile = Absent
    /\ \E c \in PairInputs : files = (FileNameOf(c) :> EarlierRecord(c))
    /\ argv = <<"sync">>
    /\ pc = "loop"
    /\ exitCode = -1
    /\ out = <<>>
    /\ \E a, b \in PairInputs :
          loc = [Loc0 EXCEPT !.repoSlug = Str(UpstreamRepo), !.owner = "o", !.repo = "n",
                             !.issues = <<IssueObj(a, 0, 1), IssueObj(b, 0, 1)>>]
    /\ req = ""
    /\ runs = 1
    /\ hist = [Hist0 EXCEPT !.filesAtStart = files, !.listed = TRUE]

NextPair == LoopWrite

SpecPair == InitPair /\ [][NextPair]_vars

(***************************************************************************)
(* SpecRepo: the repository identity.  One sync process per argument       *)
(* vector of RepoArgvs; without --repo the identity is inferred from what  *)
(* `git remote get-url origin` does (GitResults).                          *)
(***************************************************************************)
RECURSIVE TrimEnd(_)
TrimEnd(s) ==
    IF s # "" /\ CharAt(s, Len(s)) \in {" ", "\n", "\t"}
    THEN TrimEnd(SubSeq(s, 1, Len(s) - 1)) ELSE s

\* s.trim()
Trim(s) == TrimEnd(TrimStart(s))

\* (.+?)(?:\.git)?$ : the name, without a final ".git" when more than that is left
StripGit(name) ==
    IF Len(name) > Len(".git") /\ SubSeq(name, Len(name) - 3, Len(name)) = ".git"
    THEN SubSeq(name, 1, Len(name) - 4) ELSE name

\* url.match(/^<prefix>([^/]+)\/(.+?)(?:\.git)?$/): <<>> when there is no match,
\* else <<`${m[1]}/${m[2]}`>>
MatchOrigin(url, prefix) ==
    IF ~StartsWith(url, prefix) THEN <<>>
    ELSE LET rest == Slice(url, Len(prefix))
             owner == Split(rest, "/")[1]
         IN  IF owner = "" THEN <<>>
             ELSE IF Len(rest) < Len(owner) + 2 THEN <<>>
             ELSE <<owner \o "/" \o StripGit(Slice(rest, Len(owner) + 1))>>

\* inferRepoSlugFromGit, for the outcome g of run('git', ['remote', 'get-url', 'origin'])
inferRepoSlugFromGit(g) ==
    IF ~g.ok THEN [threw |-> TRUE, slug |-> ""]
    ELSE LET url == Trim(g.stdout)
             ssh == MatchOrigin(url, "git@github.com:")
             https == MatchOrigin(url, "https://github.com/")
             http == MatchOrigin(url, "http://github.com/")
         IN  IF url = "" THEN [threw |-> TRUE, slug |-> ""]
             ELSE IF ssh # <<>> THEN [threw |-> FALSE, slug |-> ssh[1]]
             ELSE IF https # <<>> THEN [threw |-> FALSE, slug |-> https[1]]
             ELSE IF http # <<>> THEN [threw |-> FALSE, slug |-> http[1]]
             ELSE [threw |-> TRUE, slug |-> ""]

OriginUrls ==
    {"", "git@github.com:o/n.git", "https://github.com/o/n", "http://github.com/o/n.git",
     "git@github.com:o/n/x.git", "https://github.com/o/n/", "https://gitlab.com/o/n",
     "https://github.com/o", "https://github.com/o/", "git@github.com:/n"}

\* git exits non-zero (no remote origin), or prints the URL and a newline
GitResults ==
    {[ok |-> FALSE, stdout |-> ""]} \cup {[ok |-> TRUE, stdout |-> u \o "\n"] : u \in OriginUrls}

\* the values given to --repo
RepoSlugs == {"o/n", "o/n/x", "o//n", "/", "o/", "/n", "on", ""}

RepoArgvs ==
    {<<"sync">>, <<"sync", "--repo">>}
        \cup {<<"sync", "--repo", s>> : s \in RepoSlugs}
        \cup {<<"sync", "--repo=" \o s>> : s \in RepoSlugs}

\* line 159: inferRepoSlugFromGit returns or throws; then sync goes on from line 160
InferFromGit ==
    /\ pc = "infer"
    /\ \E g \in GitResults :
          LET r == inferRepoSlugFromGit(g)
          IN  IF r.threw
              THEN /\ Fail("Could not infer repo")
                   /\ UNCHANGED <<loc, hist>>
              ELSE SyncBegin(Str(r.slug), loc.since)
    /\ UNCHANGED <<clock, upstream, stateFile, files, argv, runs>>

InitRepo ==
    /\ clock = 0
    /\ upstream = <<[issue |-> Null, body |-> "array"],
                    [issue |-> IssueObj(NumberAt(1), 1, 0), body |-> "array"],
                    [issue |-> IssueObj(NumberAt(2), 0, 0), body |-> "array"]>>
    /\ stateFile = Absent
    /\ files = <<>>
    /\ argv \in RepoArgvs
    /\ pc = "main"
    /\ exitCode = -1
    /\ out = <<>>
    /\ loc = Loc0
    /\ req = ""
    /\ runs = 1
    /\ hist = Hist0

NextRepo ==
    \/ MainSync
    \/ InferFromGit
    \/ ListFail
    \/ ListNotArray
    \/ ListOk
    \/ LoopSkip
    \/ LoopWrite
    \/ LoopFetchComments
    \/ CommentsFail
    \/ CommentsOk
    \/ SyncFinish

SpecRepo == InitRepo /\ [][NextRepo]_vars

(***************************************************************************)
(* Notions the properties below are stated with.                           *)
(***************************************************************************)
Max(a, b) == IF a >= b THEN a ELSE b

RECURSIVE NumDigits(_)
NumDigits(n) == IF n < 10 THEN 1 ELSE 1 + NumDigits(n \div 10)

IsDigit(c) == \E d \in 1..10 : CharAt(Digits, d) = c

DigitValue(c) == (CHOOSE d \in 1..10 : CharAt(Digits, d) = c) - 1

RECURSIVE DecimalValue(_)
DecimalValue(s) ==
    IF s = "" THEN 0
    ELSE 10 * DecimalValue(SubSeq(s, 1, Len(s) - 1)) + DigitValue(CharAt(s, Len(s)))

EndsWith(s, p) == Len(s) >= Len(p) /\ SubSeq(s, Len(s) - Len(p) + 1, Len(s)) = p

\* name is n in decimal, zero-padded to 6 digits and never cut, then ".json"
NamesIssue(name, n) ==
    /\ EndsWith(name, ".json")
    /\ LET stem == SubSeq(name, 1, Len(name) - Len(".json"))
       IN  /\ Len(stem) = Max(6, NumDigits(n))
           /\ \A k \in 1..Len(stem) : IsDigit(CharAt(stem, k))
           /\ DecimalValue(stem) = n

HoldsRecord(name) == name \in DOMAIN files /\ files[name].kind = "json"

HasHelpFlag == \E k \in 1..Len(argv) : argv[k] \in HelpFlags

PrintedUsage ==
    \E k \in 1..Len(out) :
        out[k].stream = "stdout" /\ out[k].kind = "usage" /\ Len(out[k].text) > 0

\* the entry has a numeric identifier
HasNumericId(e) == e.t = "object" /\ "number" \in DOMAIN e /\ e.number.t = "number"

\* the positions of the fetched list that hold an entry with a numeric identifier
NumericPositions == {k \in 1..Len(loc.issues) : HasNumericId(loc.issues[k])}

\* the lastSuccessfulSyncAt a state file holds (undefined when it holds none)
Lsa(f) ==
    IF f.kind = "json" /\ "lastSuccessfulSyncAt" \in DOMAIN f.v
    THEN f.v.lastSuccessfulSyncAt ELSE Undefined

\* a value is there: a non-empty string
Present(x) == x.t = "string" /\ x.v # ""

\* the record file of the entry at position k of the fetched list
RecordName(k) == FileNameOf(loc.issues[k].number.v)

RecordWritten(k) ==
    /\ HoldsRecord(RecordName(k))
    /\ files[RecordName(k)].v.issue = loc.issues[k]

\* the sync run of this process has failed, after it made its list request
RunFailed == pc = "exited" /\ exitCode = 1 /\ hist.listReq # ""

LastError == out[Len(out)].text

\* the comments held by the records of the positions in S
RECURSIVE CommentsIn(_)
CommentsIn(S) ==
    IF S = {} THEN 0
    ELSE LET k == CHOOSE y \in S : TRUE
         IN  Len(files[RecordName(k)].v.comments.v) + CommentsIn(S \ {k})

\* the comments held by the records written in this run
CommentsWritten == CommentsIn(hist.wroteFor \ hist.badComments)

\* a file's content without its fetchedAt
StripFetchedAt(f) ==
    IF f.kind = "json" /\ "fetchedAt" \in DOMAIN f.v
    THEN [f EXCEPT !.v = [x \in DOMAIN f.v \ {"fetchedAt"} |-> f.v[x]]]
    ELSE f

StripAll(fs) == [name \in DOMAIN fs |-> StripFetchedAt(fs[name])]

SummaryOf == out[Len(out)]

(***************************************************************************)
(* C1: the lastSuccessfulSyncAt in state.json differs from its value at    *)
(* the start of the run only once the list has been fetched and every      *)
(* entry with a numeric identifier has had its record written in this run; *)
(* and no record file is written once state.json has been written.         *)
(***************************************************************************)
C1_StateWrittenLast ==
    [][/\ (Lsa(stateFile') # Lsa(hist'.stateAtStart)) =>
              (hist'.listed /\ \A k \in NumericPositions' : k \in hist'.wroteFor)
       /\ (files' # files) => (stateFile = hist.stateAtStart /\ stateFile' = stateFile)
      ]_vars

C1_Witness ==
    /\ SyncSucceeded
    /\ Lsa(stateFile) # Lsa(hist.stateAtStart)
    /\ Cardinality(NumericPositions) = 2
    /\ hist.wroteFor = NumericPositions

(***************************************************************************)
(* C2: when a sync run fails, the records it wrote stay on disk and the    *)
(* lastSuccessfulSyncAt of state.json is what it was when the run started, *)
(* so that the next run without --since uses the cutoff this one had.      *)
(* (Refuted: a state write that fails after opening the file leaves it     *)
(* truncated, and the stored cutoff is lost.)                              *)
(***************************************************************************)
C2_FailedRunKeepsState ==
    RunFailed =>
        /\ \A k \in hist.wroteFor : RecordWritten(k)
        /\ Lsa(stateFile) = Lsa(hist.stateAtStart)

(***************************************************************************)
(* C3: the cutoff of the list request is the caller's since if present,    *)
(* else the lastSuccessfulSyncAt of the prior state if present, else none; *)
(* the request carries a since parameter exactly when there is a cutoff,   *)
(* and a successful run records the same cutoff as effectiveSince.         *)
(***************************************************************************)
ExpectedCutoff ==
    IF Present(loc.since) THEN <<loc.since.v>>
    ELSE IF Present(Lsa(hist.stateAtStart)) THEN <<Lsa(hist.stateAtStart).v>>
    ELSE <<>>

C3_CutoffPrecedence ==
    /\ hist.listReq # "" =>
          /\ SinceOfRequest(hist.listReq) = ExpectedCutoff
          /\ (QueryParam(hist.listReq, "since") = <<>>) <=> (ExpectedCutoff = <<>>)
    /\ SyncSucceeded =>
          stateFile.v.effectiveSince =
              (IF ExpectedCutoff = <<>> THEN Null ELSE Str(ExpectedCutoff[1]))

C3_Witness ==
    /\ SyncSucceeded
    /\ Present(loc.since)
    /\ Present(Lsa(hist.stateAtStart))
    /\ loc.since # Lsa(hist.stateAtStart)
    /\ stateFile.v.effectiveSince = loc.since

(***************************************************************************)
(* C4: when the list response is not a collection, the run fails, no file  *)
(* of the issues directory is written or overwritten, and state.json is    *)
(* not written.                                                            *)
(***************************************************************************)
C4_NonCollectionListFails ==
    hist.listNotArray =>
        /\ pc = "exited"
        /\ exitCode = 1
        /\ files = hist.filesAtStart
        /\ stateFile = hist.stateAtStart

C4_Witness ==
    /\ hist.listNotArray
    /\ pc = "exited"
    /\ DOMAIN files # {}
    /\ stateFile.kind = "json"

(***************************************************************************)
(* C5: when the comments response of an entry is not a collection, its     *)
(* record is written with an empty comments collection (unless the write   *)
(* itself fails), it adds nothing to the comments counter, and the run     *)
(* goes on to the next entry and can succeed.                              *)
(***************************************************************************)
C5_NonCollectionCommentsAreEmpty ==
    /\ \A k \in hist.badComments :
          IF k \in hist.wroteFor
          THEN /\ RecordWritten(k)
               /\ files[RecordName(k)].v.comments = Arr(<<>>)
               /\ pc = "exited" \/ loc.i > k
          ELSE RunFailed /\ LastError = ErrLine("write failed").text
    /\ (hist.listed /\ (pc = "loop" \/ SyncSucceeded)) =>
          loc.commentsFetched = CommentsWritten
    /\ SyncSucceeded => stateFile.v.stats.fetchedComments = Num(CommentsWritten)

C5_Witness ==
    /\ SyncSucceeded
    /\ 1 \in hist.badComments
    /\ hist.wroteFor = {1, 2}
    /\ 2 \in hist.commentReqFor \ hist.badComments
    /\ stateFile.v.stats.fetchedComments = Num(1)

(***************************************************************************)
(* C6: when two successive sync runs without --since both succeed and the  *)
(* tracker does not change from the start of the first to the end of the   *)
(* second, the files of the issues directory after the second are those    *)
(* after the first, fetchedAt apart, and the second lastSuccessfulSyncAt   *)
(* is not earlier than the first.                                          *)
(***************************************************************************)
C6_Idempotent ==
    (SyncSucceeded /\ hist.prevQuiet /\ hist.quiet /\ ~Present(loc.since)) =>
        /\ StripAll(files) = StripAll(hist.prevFiles)
        /\ ParseIso(Lsa(stateFile).v) >= ParseIso(Lsa(hist.prevState).v)

C6_Witness ==
    /\ SyncSucceeded /\ hist.prevQuiet /\ hist.quiet /\ ~Present(loc.since)
    /\ hist.wroteFor # {}
    /\ files # hist.prevFiles
    /\ ParseIso(Lsa(stateFile).v) > ParseIso(Lsa(hist.prevState).v)

(***************************************************************************)
(* C7: an entry of the list without a numeric identifier has no record     *)
(* written and no comments requested, no file is created or changed for    *)
(* it, and it is not counted in the wroteIssueFiles of the persisted state.*)
(***************************************************************************)
C7_NoFileWithoutNumber ==
    /\ \A k \in 1..Len(loc.issues) :
          ~HasNumericId(loc.issues[k]) => (k \notin hist.wroteFor /\ k \notin hist.commentReqFor)
    /\ \A name \in DOMAIN files :
          (name \notin DOMAIN hist.filesAtStart \/ files[name] # hist.filesAtStart[name]) =>
              \E k \in NumericPositions : NamesIssue(name, loc.issues[k].number.v)
    /\ SyncSucceeded =>
          stateFile.v.stats.wroteIssueFiles = Num(Cardinality(NumericPositions))

C7_Witness ==
    /\ SyncSucceeded
    /\ \E k \in 1..Len(loc.issues) :
          ~HasNumericId(loc.issues[k]) /\ WantsComments(loc.issues[k])
    /\ hist.wroteFor # {}

(***************************************************************************)
(* C8 as claimed: entries without a numeric identifier are counted in none *)
(* of the counters of a successful run.  (Refuted: fetchedIssues and the   *)
(* summary's issue count are the length of the list.)                      *)
(***************************************************************************)
C8_SkippedCountedNowhere ==
    SyncSucceeded =>
        /\ stateFile.v.stats.fetchedIssues = Num(Cardinality(NumericPositions))
        /\ stateFile.v.stats.wroteIssueFiles = Num(Cardinality(NumericPositions))
        /\ SummaryOf.issues = Cardinality(NumericPositions)
        /\ SummaryOf.wrote = Cardinality(NumericPositions)

(***************************************************************************)
(* C8 amended: entries without a numeric identifier are not counted in     *)
(* wroteIssueFiles and fetchedComments nor in the summary's files and      *)
(* comments counts, and the run never fails at such an entry; they are     *)
(* counted in fetchedIssues and in the summary's issue count, which are    *)
(* the length of the fetched list.                                         *)
(***************************************************************************)
C8_SkippedCountedOnlyAsFetched ==
    /\ SyncSucceeded =>
          /\ stateFile.v.stats.fetchedIssues = Num(Len(loc.issues))
          /\ stateFile.v.stats.wroteIssueFiles = Num(Cardinality(NumericPositions))
          /\ stateFile.v.stats.fetchedComments = Num(CommentsWritten)
          /\ SummaryOf.kind = "summary"
          /\ SummaryOf.issues = Len(loc.issues)
          /\ SummaryOf.wrote = Cardinality(NumericPositions)
          /\ SummaryOf.comments = CommentsWritten
    /\ (RunFailed /\ hist.listed) =>
          (loc.i > Len(loc.issues) \/ HasNumericId(loc.issues[loc.i]))

C8_Witness ==
    /\ SyncSucceeded
    /\ NumericPositions # {}
    /\ Cardinality(NumericPositions) < Len(loc.issues)
    /\ SummaryOf.issues > SummaryOf.wrote

(***************************************************************************)
(* C9: whenever --help or -h occurs anywhere in the argument vector, the   *)
(* process prints non-empty usage text and exits with status 0, and no     *)
(* sync is started.  (Refuted: an option that takes a value swallows it.)  *)
(***************************************************************************)
C9_HelpAlwaysExitsZero ==
    (HasHelpFlag /\ pc # "main") => (pc = "exited" /\ exitCode = 0 /\ PrintedUsage)

(***************************************************************************)
(* C10: the record of issue number N is written to the file named by N in  *)
(* decimal, left-padded with zeros to 6 digits, never truncated, followed  *)
(* by ".json".                                                             *)
(***************************************************************************)
C10_FileNameIsPaddedNumber ==
    /\ \A name \in DOMAIN files :
          HoldsRecord(name) => NamesIssue(name, files[name].v.issue.number.v)
    /\ \A k \in hist.wroteFor :
          \E name \in DOMAIN files :
              /\ HoldsRecord(name)
              /\ files[name].v.issue = loc.issues[k]
              /\ NamesIssue(name, loc.issues[k].number.v)

C10_Witness ==
    /\ hist.wroteFor # {}
    /\ \E name \in DOMAIN files :
          HoldsRecord(name) /\ Len(name) = Len("1234567.json")
              /\ files[name].v.issue.number.v >= 1000000

(***************************************************************************)
(* C11: when no repository identity can be determined, or the identity     *)
(* (given with --repo or inferred) is not one non-empty owner and one      *)
(* non-empty name separated by a single slash, sync fails before a request *)
(* is made and before a file is written.  (Refuted: sync asks only for a   *)
(* slash somewhere in the identity.)                                       *)
(***************************************************************************)
WellShaped(slug) ==
    LET parts == Split(slug, "/")
    IN  Len(parts) = 2 /\ parts[1] # "" /\ parts[2] # ""

\* the identity sync has settled on is no owner/name
NoIdentity ==
    IF loc.repoSlug.t # "string" THEN TRUE ELSE ~WellShaped(loc.repoSlug.v)

C11_MalformedRepoFails ==
    (pc \notin {"main", "infer"} /\ NoIdentity) =>
        /\ pc = "exited"
        /\ exitCode = 1
        /\ out[Len(out)].kind = "error"
        /\ hist.listReq = ""
        /\ files = hist.filesAtStart
        /\ stateFile = hist.stateAtStart

(***************************************************************************)
(* C12: the exit status is 0 or 1.  It is 0 exactly when the sync run      *)
(* completed (list fetched, every record and state.json written, summary   *)
(* printed) or parseArgs read a help flag; it is 1 when the command is     *)
(* missing or unknown (usage is printed) and when the run failed (an error *)
(* line is printed last), whatever the kind of failure.                    *)
(***************************************************************************)
\* the sync run went through the list, wrote state.json and printed the summary
RunCompleted ==
    /\ hist.listed
    /\ loc.i > Len(loc.issues)
    /\ hist.wroteFor = NumericPositions
    /\ stateFile.kind = "json"
    /\ stateFile.v.effectiveSince = loc.effectiveSince
    /\ out # <<>>
    /\ out[Len(out)].kind = "summary"

\* parseArgs came to a --help or -h that is not the value of --repo or --since
HelpRequested == parseArgs(argv).exited

\* no command, or a command that is not sync
NoSuchCommand ==
    /\ ~parseArgs(argv).exited
    /\ parseArgs(argv).args.command # Str("sync")

ErrorPrintedLast ==
    /\ out # <<>>
    /\ out[Len(out)].kind = "error"
    /\ out[Len(out)].stream = "stderr"
    /\ \A k \in 1..Len(out) : out[k].kind # "summary"

NumericBefore(k) == {j \in NumericPositions : j < k}

C13_Sequential ==
    [][/\ (req' # "" /\ req' # req) => req = ""
       /\ (pc = "loop" /\ pc' = "comments") =>
              /\ hist.wroteFor = NumericBefore(loc.i)
              /\ hist.commentReqFor \subseteq NumericBefore(loc.i)
              /\ hist'.commentReqFor = hist.commentReqFor \cup {loc.i}
              /\ files' = files
       /\ (pc' # "main" /\ hist'.wroteFor # hist.wroteFor) =>
              /\ hist.wroteFor = NumericBefore(loc.i)
              /\ hist'.wroteFor = hist.wroteFor \cup {loc.i}
              /\ hist.commentReqFor \subseteq NumericBefore(loc.i) \cup {loc.i}
              /\ IF WantsComments(loc.issues[loc.i])
                 THEN /\ pc = "comments"
                      /\ loc.i \in hist.commentReqFor
                      /\ req = CommentsPath(loc.owner, loc.repo, loc.issues[loc.i].number.v)
                 ELSE pc = "loop" /\ loc.i \notin hist.commentReqFor
              /\ req' = ""
       /\ (Len(out') > Len(out) /\ out'[Len(out')].kind = "error") =>
              /\ pc' = "exited"
              /\ exitCode' = 1
              /\ req' = ""
              /\ hist'.wroteFor = hist.wroteFor
              /\ hist'.commentReqFor = hist.commentReqFor
              /\ (pc \in {"list", "comments"} \/ (pc = "loop" /\ ~LoopDone)) =>
                     (stateFile' = stateFile /\ stateFile = hist.stateAtStart)
       /\ (pc = "exited" /\ pc' # "main") =>
              /\ pc' = "exited"
              /\ files' = files
              /\ stateFile' = stateFile
              /\ req' = ""
              /\ out' = out
      ]_vars

C13_Witness ==
    /\ RunFailed
    /\ Len(loc.issues) = 2
    /\ loc.i = 2
    /\ hist.wroteFor = {1}
    /\ hist.commentReqFor = {1, 2}
    /\ LastError = ErrLine("gh exited with code 1").text
    /\ stateFile = hist.stateAtStart
    /\ stateFile.kind = "json"

(***************************************************************************)
(* C14: the comments of an entry are requested only when its reported      *)
(* comment count is greater than zero, and at most once for an entry of    *)
(* the list; for an entry whose count is zero no request is made and its   *)
(* record is written with an empty comments collection.                    *)
(***************************************************************************)
\* the comment count the tracker reports for the entry
ReportedCount(e) ==
    IF "comments" \in DOMAIN e /\ e.comments.t = "number" THEN e.comments.v ELSE 0

C14_CommentsOnlyWhenCounted ==
    [][/\ (pc' = "comments" /\ pc # "comments") =>
              /\ ReportedCount(loc.issues[loc.i]) > 0
              /\ loc.i \notin hist.commentReqFor
              /\ hist'.commentReqFor = hist.commentReqFor \cup {loc.i}
              /\ req' = CommentsPath(loc.owner, loc.repo, loc.issues[loc.i].number.v)
       /\ (pc' # "main" /\ hist'.commentReqFor # hist.commentReqFor) =>
              (pc' = "comments" /\ pc = "loop")
       /\ (req' # req /\ req' # "" /\ pc' # "list") => pc' = "comments"
       /\ (pc' # "main" /\ hist'.wroteFor # hist.wroteFor
             /\ ReportedCount(loc.issues[loc.i]) = 0) =>
              /\ pc = "loop"
              /\ loc.i \notin hist'.commentReqFor
              /\ files'[RecordName(loc.i)].v.issue = loc.issues[loc.i]
              /\ files'[RecordName(loc.i)].v.comments = Arr(<<>>)
              /\ loc'.commentsFetched = loc.commentsFetched
      ]_vars

C14_Witness ==
    /\ SyncSucceeded
    /\ Len(loc.issues) = 2
    /\ ReportedCount(loc.issues[1]) = 0
    /\ ReportedCount(loc.issues[2]) > 0
    /\ hist.wroteFor = {1, 2}
    /\ hist.commentReqFor = {2}
    /\ files[RecordName(1)].v.comments = Arr(<<>>)
    /\ files[RecordName(2)].v.comments # Arr(<<>>)

(***************************************************************************)
(* C15: a sync run deletes no file of the issues directory; a file that    *)
(* was there when the run started and is not the file of an entry of the   *)
(* fetched list with a numeric identifier is as it was; and every such     *)
(* entry the run has gone past has its file holding the record of this run.*)
(***************************************************************************)
\* name is the file of an entry of the fetched list
NamesListed(name) ==
    \E k \in NumericPositions : NamesIssue(name, loc.issues[k].number.v)

C15_OnlyListedFilesChange ==
    /\ DOMAIN hist.filesAtStart \subseteq DOMAIN files
    /\ \A name \in DOMAIN hist.filesAtStart :
          ~NamesListed(name) => files[name] = hist.filesAtStart[name]
    /\ \A k \in NumericPositions :
          (k < loc.i \/ SyncSucceeded) =>
              /\ k \in hist.wroteFor
              /\ RecordWritten(k)
              /\ files[RecordName(k)].v.repo = loc.repoSlug

C15_Witness ==
    /\ SyncSucceeded
    /\ Cardinality(DOMAIN hist.filesAtStart) = 2
    /\ Cardinality(NumericPositions) = 1
    /\ \E a, b \in DOMAIN hist.filesAtStart :
          /\ a # b
          /\ ~NamesListed(a)
          /\ files[a] = hist.filesAtStart[a]
          /\ NamesListed(b)
          /\ files[b] # hist.filesAtStart[b]

(***************************************************************************)
(* C16: when state.json is absent or cannot be parsed at the start of a    *)
(* sync run, the prior state is null, the cutoff is the caller's since or  *)
(* none, the list request carries a since exactly when the caller gave     *)
(* one, and the run can succeed and write a state.                         *)
(***************************************************************************)
NoStateAtStart == hist.stateAtStart.kind # "json"

C16_UnreadableStateIsFirstSync ==
    (NoStateAtStart /\ hist.listReq # "") =>
        /\ loc.prevState = Null
        /\ loc.effectiveSince = (IF Present(loc.since) THEN loc.since ELSE Null)
        /\ (QueryParam(hist.listReq, "since") = <<>>) <=> ~Present(loc.since)
        /\ SyncSucceeded =>
              /\ stateFile.kind = "json"
              /\ Present(Lsa(stateFile))
              /\ stateFile.v.effectiveSince = loc.effectiveSince

C16_Witness ==
    /\ SyncSucceeded
    /\ hist.stateAtStart = Truncated
    /\ ~Present(loc.since)
    /\ QueryParam(hist.listReq, "since") = <<>>
    /\ hist.wroteFor # {}
    /\ stateFile.kind = "json"
    /\ stateFile.v.effectiveSince = Null

(***************************************************************************)
(* C17: when the loop is over and the process ends without state.json      *)
(* holding the state of this run, the exit status is 1, the error is       *)
(* printed and no summary is; a summary is printed only with state.json    *)
(* written and status 0.                                                   *)
(***************************************************************************)
SummaryPrinted(o) == \E k \in 1..Len(o) : o[k].kind = "summary"

C17_StateWriteFailureFailsRun ==
    [][/\ (pc = "loop" /\ LoopDone /\ pc' = "exited"
               /\ stateFile' # safeJsonStringify(NextState)) =>
              /\ exitCode' = 1
              /\ out' = Append(out, ErrLine("write failed"))
              /\ ~SummaryPrinted(out')
              /\ files' = files
       /\ (SummaryPrinted(out') /\ ~SummaryPrinted(out)) =>
              /\ pc = "loop" /\ LoopDone
              /\ stateFile' = safeJsonStringify(NextState)
              /\ exitCode' = 0
      ]_vars

C17_Witness ==
    /\ pc = "exited"
    /\ exitCode = 1
    /\ hist.listed
    /\ loc.i > Len(loc.issues)
    /\ Cardinality(NumericPositions) = 2
    /\ hist.wroteFor = NumericPositions
    /\ \A k \in NumericPositions : RecordWritten(k)
    /\ LastError = ErrLine("write failed").text
    /\ ~SummaryPrinted(out)
    /\ stateFile = hist.stateAtStart

(***************************************************************************)
(* C18: at the end of a successful run, every issue of the tracker either  *)
(* has its present content in its record on disk, or was updated at or     *)
(* after the lastSuccessfulSyncAt the run stored, so that the next run     *)
(* without --since lists it again.  (Refuted: lastSuccessfulSyncAt is the  *)
(* time the run ends, not the time its list request was answered; an issue *)
(* updated in between is in neither case.)                                 *)
(***************************************************************************)
\* the record on disk holds the entry as the tracker has it now
Reflected(e) ==
    LET name == FileNameOf(e.issue.number.v)
    IN  IF HoldsRecord(name) THEN files[name].v.issue = e.issue ELSE FALSE

\* a list request with the stored lastSuccessfulSyncAt as cutoff lists the entry
ListedByNextRun(e) ==
    IF Present(Lsa(stateFile))
    THEN ParseIso(e.issue.updated_at.v) >= ParseIso(Lsa(stateFile).v)
    ELSE TRUE

C18_NoUpdateLost ==
    SyncSucceeded =>
        \A j \in 1..Len(upstream) :
            HasNumericId(upstream[j].issue) =>
                (IF Reflected(upstream[j]) THEN TRUE ELSE ListedByNextRun(upstream[j]))

(***************************************************************************)
(* C19: issues with different numbers have different files.  A file that   *)
(* holds a record is only overwritten by a record of the same number, and  *)
(* the record of a number (written in this run, or left by an earlier one) *)
(* stays on disk unless the run comes to an entry of the same number.      *)
(***************************************************************************)
\* the numbers whose record a file of the directory fs holds
NumbersOnDisk(fs) ==
    {fs[name].v.issue.number.v : name \in {x \in DOMAIN fs : fs[x].kind = "json"}}

\* the numbers of the entries the run has come to (written, or failed to write)
NumbersReached ==
    {loc.issues[k].number.v :
        k \in {j \in NumericPositions : j < loc.i \/ (j = loc.i /\ pc = "exited")}}

\* the numbers of the entries whose write went through last for their number
NumbersWritten ==
    {loc.issues[k].number.v :
        k \in {j \in hist.wroteFor :
                 ~(pc = "exited" /\ loc.i \in NumericPositions
                     /\ loc.issues[loc.i].number = loc.issues[j].number)}}

RecordsKept ==
    /\ NumbersWritten \subseteq NumbersOnDisk(files)
    /\ NumbersOnDisk(hist.filesAtStart) \ NumbersReached \subseteq NumbersOnDisk(files)
    /\ Cardinality({x \in DOMAIN files : files[x].kind = "json"})
           = Cardinality(NumbersOnDisk(files))

C19_DistinctNumbersDistinctFiles ==
    [][/\ \A name \in DOMAIN files :
              (files[name].kind = "json" /\ files'[name] # files[name]) =>
                  /\ loc.issues[loc.i].number = files[name].v.issue.number
                  /\ files'[name].kind = "json" =>
                         files'[name].v.issue.number = files[name].v.issue.number
       /\ RecordsKept'
      ]_vars

C19_Witness ==
    /\ hist.wroteFor = {1, 2}
    /\ loc.issues[1].number.v = 1000001
    /\ loc.issues[2].number.v = 1
    /\ NumbersOnDisk(hist.filesAtStart) = {100000}
    /\ NumbersOnDisk(files) = {1, 100000, 1000001}
    /\ Cardinality(DOMAIN files) = 3

=============================================================================
